---- MODULE Spec2Model ----
(***************************************************************************)
(* Model of uproot4/source/futures.py: TrivialFuture, ResourceExecutor,    *)
(* TaskFuture, ThreadResourceWorker and ThreadResourceExecutor.            *)
(*                                                                         *)
(* Threads: MainThread is the caller's thread (the thread that constructs  *)
(* an executor and calls its methods); w in Workers is the thread of the   *)
(* w-th ThreadResourceWorker of the ThreadResourceExecutor.                *)
(***************************************************************************)
EXTENDS Naturals, Sequences, FiniteSets

\* ---------------------------------------------------------------- bounds
\* Largest number of resources handed to ThreadResourceExecutor (one
\* worker each); a pool has 1..NumWorkers of them.
NumWorkers == 2
\* Number of TaskFutures created (submit and map together).
MaxTasks == 2
\* Rounds of shutdown's while loop.
MaxRounds == 2
\* Direct calls of ThreadResourceExecutor.shutdown.
MaxShutdowns == 2
\* Calls of each method of the ResourceExecutor.
MaxCalls == 4

Workers == 1..NumWorkers
MainThread == 0
Threads == {MainThread} \cup Workers

\* ---------------------------------------------------------------- values
\* Arguments handed to a task: a single item, or a whole iterable.
NoArg == [list |-> FALSE, v |-> <<>>]
ItemArg(x) == [list |-> FALSE, v |-> <<x>>]
ListArg(s) == [list |-> TRUE, v |-> s]

\* Python's None in a result or excinfo slot.
None == [tag |-> "None", res |-> 0, arg |-> NoArg]
\* The value of fn(resource, x) for a task that returns.
Ret(r, x) == [tag |-> "ret", res |-> r, arg |-> x]
\* sys.exc_info() of the error raised by fn(resource, x).
ExcInfo(r, x) == [tag |-> "exc", res |-> r, arg |-> x]

\* What a task does when called: return a value ("ok"), raise an error
\* derived from Exception ("exc"), or raise one derived only from
\* BaseException, such as SystemExit or KeyboardInterrupt ("base").
TaskKinds == {"ok", "exc", "base"}

\* The stop marker on the work queue (None in the code); a TaskFuture on
\* the queue is referred to by its index in `futures`.
Sentinel == 0

\* The iterables given to map: one item, or two distinct items.
MapInputs == {<<1>>, <<1, 2>>}

\* The lists of resources handed to the constructor: 1 to NumWorkers
\* pairwise distinct resources (the w-th worker holds resource w).
ResourceLists == {[w \in 1..n |-> w] : n \in 1..NumWorkers}

VARIABLES
    \* ---- ThreadResourceExecutor
    resources,    \* ThreadResourceWorker._resource, per worker
    queue,        \* ThreadResourceExecutor._work_queue (FIFO)
    futures,      \* every TaskFuture created, in creation order
    wpc,          \* per worker: "get", "call", "set" or "dead" ("none":
                  \* the pool has no such worker)
    wfut,         \* per worker: the future it dequeued last (0: none)
    ncalls,       \* per future: number of invocations of its task
    taskThreads,  \* per resource: threads that called a task with it
    obs,          \* outcome of the latest TaskFuture.result call
    expiredOn,    \* futures on which a result(timeout) call has expired
    sdpc,         \* the position inside shutdown(): "idle", "check", "put"
    sdI,          \* shutdown: sentinels put so far in the current round
    sdRounds,     \* shutdown: rounds of the while loop begun
    sdReturned,   \* number of shutdown() calls that have returned
    sdCaller,     \* caller of the running shutdown: "direct" or "exit"
    sdSeen,       \* number of futures submitted before the first shutdown
    lateSubmits,  \* number of futures submitted after a shutdown returned
    scope,        \* the executor's with-block: "new", "entered",
                  \* "shutdown", "release", "returned", "raised"
    exI,          \* __exit__: index of the worker whose resource is next
    exitExc,      \* __exit__: its exception_type argument
    entered,      \* per resource: number of __enter__ invocations
    released,     \* per resource: number of __exit__ invocations
    scopeThreads, \* per resource: threads that invoked __enter__/__exit__
    mapIn,        \* map: the *iterables tuple of the call
    mapFuts,      \* map: the list `futures` of the generator
    mapOut,       \* map: the values yielded so far
    mapState,     \* map: "idle", "running", "done" or "raised"
    \* ---- ResourceExecutor and TrivialFuture
    reEntered,    \* number of __enter__ invocations on its resource
    reReleased,   \* number of __exit__ invocations on its resource
    reLast,       \* the latest ResourceExecutor call and how it ended
    reCalls,      \* number of ResourceExecutor calls made
    tfs,          \* the TrivialFutures made so far (their _result)
    tfObs,        \* the latest TrivialFuture method call and what it gave
    tfCb          \* per TrivialFuture: add_done_callback calls made on
                  \* it (adds) and calls of a callback with it (calls)

workerVars == <<wpc, wfut>>
futVars == <<futures, ncalls>>
obsVars == <<obs, expiredOn>>
sdVars == <<sdpc, sdI, sdRounds, sdReturned, sdCaller, sdSeen, lateSubmits>>
scopeVars == <<scope, exI, exitExc, entered, released, scopeThreads>>
mapVars == <<mapIn, mapFuts, mapOut, mapState>>
reVars == <<reEntered, reReleased, reLast, reCalls, tfs, tfObs, tfCb>>

vars == <<resources, queue, futVars, workerVars, taskThreads, obsVars,
          sdVars, scopeVars, mapVars, reVars>>

\* ---------------------------------------------------------------- helpers
FutureIds == 1..Len(futures)
\* The workers of the pool (`self._workers`), one per resource.
PoolWorkers == DOMAIN resources
\* threading.Thread.is_alive of a started worker: true until run() ends.
IsAlive(w) == wpc[w] \in {"get", "call", "set"}
AnyAlive == \E w \in PoolWorkers : IsAlive(w)

\* TaskFuture.__init__
NewTaskFuture(kind, arg) ==
    [task |-> kind, args |-> arg, finished |-> FALSE,
     result |-> None, excinfo |-> None]

NoObs == [fut |-> 0, expired |-> FALSE, kind |-> "none", val |-> None]
NoCall == [op |-> "none", task |-> "none", out |-> "none", releases |-> 0]
NoCallbacks == [adds |-> 0, calls |-> 0]
NoQuery == [fut |-> 0, op |-> "none", timeout |-> "None", flag |-> FALSE,
            val |-> None]

\* ---------------------------------------------------------------- Init
\* ThreadResourceExecutor.__init__ over a list of pairwise distinct
\* resources: an empty queue and one started worker per resource.
\* ResourceExecutor.__init__: one resource, nothing called.
Init ==
    /\ resources \in ResourceLists
    /\ queue = <<>>
    /\ futures = <<>>
    /\ ncalls = <<>>
    /\ wpc = [w \in Workers |-> IF w \in PoolWorkers THEN "get" ELSE "none"]
    /\ wfut = [w \in Workers |-> 0]
    /\ taskThreads = [r \in Workers |-> {}]
    /\ obs = NoObs
    /\ expiredOn = {}
    /\ sdpc = "idle"
    /\ sdI = 0
    /\ sdRounds = 0
    /\ sdReturned = 0
    /\ sdCaller = "none"
    /\ sdSeen = 0
    /\ lateSubmits = 0
    /\ scope = "new"
    /\ exI = 0
    /\ exitExc = "None"
    /\ entered = [r \in Workers |-> 0]
    /\ released = [r \in Workers |-> 0]
    /\ scopeThreads = [r \in Workers |-> {}]
    /\ mapIn = <<>>
    /\ mapFuts = <<>>
    /\ mapOut = <<>>
    /\ mapState = "idle"
    /\ reEntered = 0
    /\ reReleased = 0
    /\ reLast = NoCall
    /\ reCalls = 0
    /\ tfs = <<>>
    /\ tfObs = NoQuery
    /\ tfCb = <<>>

\* ---------------------------------------------------------------- worker
\* A worker that reads the head of the queue and leaves it there.
WorkerGetPeeks(w) ==
    /\ wpc[w] = "get"
    /\ queue # <<>>
    /\ queue' = queue
    /\ IF Head(queue) = Sentinel
          THEN /\ wpc' = [wpc EXCEPT ![w] = "dead"]
               /\ wfut' = [wfut EXCEPT ![w] = 0]
          ELSE /\ wpc' = [wpc EXCEPT ![w] = "call"]
               /\ wfut' = [wfut EXCEPT ![w] = Head(queue)]
    /\ UNCHANGED <<resources, futVars, taskThreads, obsVars, sdVars,
                   scopeVars, mapVars, reVars>>

\* A worker that takes a sentinel from the queue and goes on with its
\* loop.
WorkerGetIgnoresSentinel(w) ==
    /\ wpc[w] = "get"
    /\ queue # <<>>
    /\ queue' = Tail(queue)
    /\ IF Head(queue) = Sentinel
          THEN /\ wpc' = wpc
               /\ wfut' = [wfut EXCEPT ![w] = 0]
          ELSE /\ wpc' = [wpc EXCEPT ![w] = "call"]
               /\ wfut' = [wfut EXCEPT ![w] = Head(queue)]
    /\ UNCHANGED <<resources, futVars, taskThreads, obsVars, sdVars,
                   scopeVars, mapVars, reVars>>

\* A worker that takes the entry put on the queue last.
WorkerGetLast(w) ==
    /\ wpc[w] = "get"
    /\ queue # <<>>
    /\ queue' = SubSeq(queue, 1, Len(queue) - 1)
    /\ IF queue[Len(queue)] = Sentinel
          THEN /\ wpc' = [wpc EXCEPT ![w] = "dead"]
               /\ wfut' = [wfut EXCEPT ![w] = 0]
          ELSE /\ wpc' = [wpc EXCEPT ![w] = "call"]
               /\ wfut' = [wfut EXCEPT ![w] = queue[Len(queue)]]
    /\ UNCHANGED <<resources, futVars, taskThreads, obsVars, sdVars,
                   scopeVars, mapVars, reVars>>

\* ThreadResourceWorker.run: `future = self._work_queue.get()` and the
\* `if future is None: break` after it. get() blocks on an empty queue.
WorkerGet(w) ==
    /\ wpc[w] = "get"
    /\ queue # <<>>
    /\ queue' = Tail(queue)
    /\ IF Head(queue) = Sentinel
          THEN /\ wpc' = [wpc EXCEPT ![w] = "dead"]
               /\ wfut' = [wfut EXCEPT ![w] = 0]
          ELSE /\ wpc' = [wpc EXCEPT ![w] = "call"]
               /\ wfut' = [wfut EXCEPT ![w] = Head(queue)]
    /\ UNCHANGED <<resources, futVars, taskThreads, obsVars, sdVars,
                   scopeVars, mapVars, reVars>>

\* A capture that stores the error and also a result.
TaskOutcomeWritesBoth(fut, r) ==
    CASE fut.task = "ok"  -> [fut EXCEPT !.result = Ret(r, fut.args)]
      [] fut.task = "exc" -> [fut EXCEPT !.result = Ret(r, fut.args),
                                         !.excinfo = ExcInfo(r, fut.args)]
      [] OTHER            -> fut

\* The try/except around the task call, as it leaves the future: the
\* return value goes to _result; an error caught by `except Exception`
\* goes to _excinfo; an error that is not caught leaves the future as it
\* is.
TaskOutcome(fut, r) ==
    CASE fut.task = "ok"  -> [fut EXCEPT !.result = Ret(r, fut.args)]
      [] fut.task = "exc" -> [fut EXCEPT !.excinfo = ExcInfo(r, fut.args)]
      [] OTHER            -> fut

\* Whether control reaches `future._finished.set()` after the task call:
\* the task returned, or `except Exception` caught what it raised.
Caught(kind) == kind \in {"ok", "exc"}

\* A worker that calls the task with the first resource of the pool.
WorkerResourceShared(w) == resources[1]

\* The first argument of the task call: `self._resource`.
WorkerResource(w) == resources[w]

\* A worker that sets the completion signal in place of writing the
\* outcome of the call.
WorkerCallSignalFirst(w) ==
    /\ wpc[w] = "call"
    /\ LET f == wfut[w]
           r == WorkerResource(w)
       IN /\ futures' = [futures EXCEPT ![f].finished = TRUE]
          /\ ncalls' = [ncalls EXCEPT ![f] = ncalls[f] + 1]
          /\ taskThreads' = [taskThreads EXCEPT ![r] = taskThreads[r] \cup {w}]
          /\ wpc' = [wpc EXCEPT ![w] =
                        IF Caught(futures[f].task) THEN "set" ELSE "dead"]
    /\ UNCHANGED <<resources, queue, wfut, obsVars, sdVars, scopeVars,
                   mapVars, reVars>>

\* ThreadResourceWorker.run, the try/except: the task is called on the
\* worker's thread with the worker's resource. An error that
\* `except Exception` does not catch leaves run(), and the thread ends.
WorkerCall(w) ==
    /\ wpc[w] = "call"
    /\ LET f == wfut[w]
           r == WorkerResource(w)
       IN /\ futures' = [futures EXCEPT ![f] = TaskOutcome(futures[f], r)]
          /\ ncalls' = [ncalls EXCEPT ![f] = ncalls[f] + 1]
          /\ taskThreads' = [taskThreads EXCEPT ![r] = taskThreads[r] \cup {w}]
          /\ wpc' = [wpc EXCEPT ![w] =
                        IF Caught(futures[f].task) THEN "set" ELSE "dead"]
    /\ UNCHANGED <<resources, queue, wfut, obsVars, sdVars, scopeVars,
                   mapVars, reVars>>

\* ThreadResourceWorker.run: `future._finished.set()`, then back to the
\* top of the loop.
WorkerSet(w) ==
    /\ wpc[w] = "set"
    /\ futures' = [futures EXCEPT ![wfut[w]].finished = TRUE]
    /\ wpc' = [wpc EXCEPT ![w] = "get"]
    /\ wfut' = [wfut EXCEPT ![w] = 0]
    /\ UNCHANGED <<resources, queue, ncalls, taskThreads, obsVars, sdVars,
                   scopeVars, mapVars, reVars>>

\* ---------------------------------------------------------------- submit
\* ThreadResourceExecutor.submit: a new pending TaskFuture is put on the
\* queue and returned. (The code never looks at the arguments; the model
\* gives the i-th future the argument i, so that results can be told
\* apart.)
Submit(kind, arg) ==
    /\ Len(futures) < MaxTasks
    /\ futures' = Append(futures, NewTaskFuture(kind, arg))
    /\ ncalls' = Append(ncalls, 0)
    /\ queue' = Append(queue, Len(futures) + 1)
    /\ lateSubmits' = IF sdReturned >= 1 THEN lateSubmits + 1 ELSE lateSubmits
    /\ UNCHANGED <<resources, workerVars, taskThreads, obsVars, sdpc, sdI,
                   sdRounds, sdReturned, sdCaller, sdSeen, scopeVars,
                   mapVars, reVars>>

\* ---------------------------------------------------------------- result
\* TaskFuture.result after the wait: `if self._excinfo is None: return
\* self._result`, else re-raise the recorded error. The value returned by
\* wait() is not looked at.
ResultOutcome(fut) ==
    IF fut.excinfo = None
       THEN [kind |-> "return", val |-> fut.result]
       ELSE [kind |-> "raise", val |-> fut.excinfo]

\* A result() that records an expired wait in the error slot.
ResultEffectRecordsTimeout(fut) ==
    IF fut.finished THEN fut ELSE [fut EXCEPT !.excinfo = ExcInfo(0, NoArg)]

\* What a result() call writes to the future it is called on: nothing.
ResultEffect(fut) == fut

\* TaskFuture.result(timeout) where wait() ends because the signal is set
\* (timeout=None, or a timeout that has not expired). With timeout=None
\* the call blocks for as long as the signal is not set.
ResultWait(f) ==
    /\ futures[f].finished
    /\ obs' = [fut |-> f, expired |-> FALSE,
               kind |-> ResultOutcome(futures[f]).kind,
               val |-> ResultOutcome(futures[f]).val]
    /\ futures' = [futures EXCEPT ![f] = ResultEffect(futures[f])]
    /\ UNCHANGED <<resources, queue, ncalls, workerVars, taskThreads,
                   expiredOn, sdVars, scopeVars, mapVars, reVars>>

\* TaskFuture.result(timeout) where wait(timeout) ends because the timeout
\* expired with the signal still not set.
ResultTimeout(f) ==
    /\ ~futures[f].finished
    /\ obs' = [fut |-> f, expired |-> TRUE,
               kind |-> ResultOutcome(futures[f]).kind,
               val |-> ResultOutcome(futures[f]).val]
    /\ expiredOn' = expiredOn \cup {f}
    /\ futures' = [futures EXCEPT ![f] = ResultEffect(futures[f])]
    /\ UNCHANGED <<resources, queue, ncalls, workerVars, taskThreads,
                   sdVars, scopeVars, mapVars, reVars>>

\* ---------------------------------------------------------------- shutdown
\* A shutdown that puts a round of sentinels before it tests for live
\* workers.
ShutdownCallPutsFirst ==
    /\ sdpc = "idle"
    /\ scope \notin {"shutdown", "release"}
    /\ sdReturned < MaxShutdowns
    /\ sdpc' = "put"
    /\ sdCaller' = "direct"
    /\ sdSeen' = IF sdReturned = 0 THEN Len(futures) ELSE sdSeen
    /\ UNCHANGED <<resources, queue, futVars, workerVars, taskThreads,
                   obsVars, sdI, sdRounds, sdReturned, lateSubmits,
                   scopeVars, mapVars, reVars>>

\* A call of ThreadResourceExecutor.shutdown by the caller.
ShutdownCall ==
    /\ sdpc = "idle"
    /\ scope \notin {"shutdown", "release"}
    /\ sdReturned < MaxShutdowns
    /\ sdpc' = "check"
    /\ sdCaller' = "direct"
    /\ sdSeen' = IF sdReturned = 0 THEN Len(futures) ELSE sdSeen
    /\ UNCHANGED <<resources, queue, futVars, workerVars, taskThreads,
                   obsVars, sdI, sdRounds, sdReturned, lateSubmits,
                   scopeVars, mapVars, reVars>>

\* A shutdown whose loop is never entered: it returns without waiting
\* for the workers.
ShutdownReturnsAtOnce == FALSE

\* The condition of shutdown's while loop:
\* `any(thread.is_alive() for thread in self._workers)`.
ShutdownContinues == AnyAlive

\* shutdown: the test of the while loop (after the time.sleep that ends
\* the round before, if any). With no worker alive shutdown returns;
\* called from __exit__, control goes on to the release loop.
ShutdownCheck ==
    /\ sdpc = "check"
    /\ IF ShutdownContinues
          THEN /\ sdRounds < MaxRounds
               /\ sdpc' = "put"
               /\ sdI' = 0
               /\ sdRounds' = sdRounds + 1
               /\ UNCHANGED <<sdReturned, sdCaller, scope, exI>>
          ELSE /\ sdpc' = "idle"
               /\ sdReturned' = sdReturned + 1
               /\ sdCaller' = "none"
               /\ IF sdCaller = "exit"
                     THEN scope' = "release" /\ exI' = 1
                     ELSE UNCHANGED <<scope, exI>>
               /\ UNCHANGED <<sdI, sdRounds>>
    /\ UNCHANGED <<resources, queue, futVars, workerVars, taskThreads,
                   obsVars, sdSeen, lateSubmits, exitExc, entered,
                   released, scopeThreads, mapVars, reVars>>

\* The workers that are alive.
AliveWorkers == {w \in PoolWorkers : IsAlive(w)}

\* A round that puts one sentinel for each worker that is alive.
SentinelsPerAliveWorker == Cardinality(AliveWorkers)

\* The number of sentinels one round of shutdown puts on the queue:
\* `for x in range(len(self._workers))`.
SentinelsPerRound == Len(resources)

\* shutdown: one `self._work_queue.put(None)` of the for loop; after the
\* last one of the round, time.sleep and back to the loop's test.
ShutdownPut ==
    /\ sdpc = "put"
    /\ queue' = Append(queue, Sentinel)
    /\ IF sdI + 1 >= SentinelsPerRound
          THEN sdpc' = "check" /\ sdI' = 0
          ELSE sdpc' = "put" /\ sdI' = sdI + 1
    /\ UNCHANGED <<resources, futVars, workerVars, taskThreads, obsVars,
                   sdRounds, sdReturned, sdCaller, sdSeen, lateSubmits,
                   scopeVars, mapVars, reVars>>

\* ---------------------------------------------------------------- scope
\* ThreadResourceExecutor.__enter__: the caller's thread invokes
\* __enter__ of the resource of every worker.
Enter ==
    /\ scope = "new"
    /\ scope' = "entered"
    /\ entered' = [r \in Workers |->
                     entered[r] + Cardinality({w \in PoolWorkers : resources[w] = r})]
    /\ scopeThreads' = [r \in Workers |->
                     IF \E w \in PoolWorkers : resources[w] = r
                        THEN scopeThreads[r] \cup {MainThread}
                        ELSE scopeThreads[r]]
    /\ UNCHANGED <<resources, queue, futVars, workerVars, taskThreads,
                   obsVars, sdVars, exI, exitExc, released, mapVars, reVars>>

\* An __exit__ that goes to the release loop without calling shutdown.
ExitCallReleasesFirst(exc) ==
    /\ scope = "entered"
    /\ sdpc = "idle"
    /\ scope' = "release"
    /\ exitExc' = exc
    /\ exI' = 1
    /\ UNCHANGED <<resources, queue, futVars, workerVars, taskThreads,
                   obsVars, sdVars, entered, released, scopeThreads,
                   mapVars, reVars>>

\* ThreadResourceExecutor.__exit__(exception_type, ...), its first
\* statement: `self.shutdown()`. exc is "None" when the with-block ended
\* normally and "Error" when it ended because of an error.
ExitCall(exc) ==
    /\ scope = "entered"
    /\ sdpc = "idle"
    /\ scope' = "shutdown"
    /\ exitExc' = exc
    /\ sdpc' = "check"
    /\ sdCaller' = "exit"
    /\ sdSeen' = IF sdReturned = 0 THEN Len(futures) ELSE sdSeen
    /\ UNCHANGED <<resources, queue, futVars, workerVars, taskThreads,
                   obsVars, sdI, sdRounds, sdReturned, lateSubmits, exI,
                   entered, released, scopeThreads, mapVars, reVars>>

\* Where __exit__ stands after the release of the i-th worker's resource:
\* an error raised by the release leaves the for loop and __exit__;
\* otherwise the loop goes on to the next worker, or __exit__ returns.
AfterRelease(ok, i) ==
    IF ~ok THEN "raised"
    ELSE IF i >= Len(resources) THEN "returned" ELSE "release"

\* __exit__: one `thread.resource.__exit__(exception_type, ...)` of the
\* for loop, invoked by the caller's thread. The resource is an external
\* collaborator: its release returns (ok) or raises.
ExitRelease(ok) ==
    /\ scope = "release"
    /\ LET r == resources[exI]
       IN /\ released' = [released EXCEPT ![r] = released[r] + 1]
          /\ scopeThreads' = [scopeThreads EXCEPT
                                 ![r] = scopeThreads[r] \cup {MainThread}]
    /\ scope' = AfterRelease(ok, exI)
    /\ exI' = IF AfterRelease(ok, exI) = "release" THEN exI + 1 ELSE exI
    /\ UNCHANGED <<resources, queue, futVars, workerVars, taskThreads,
                   obsVars, sdVars, exitExc, entered, mapVars, reVars>>

\* ---------------------------------------------------------------- map
\* ThreadResourceExecutor.map, the argument of each submit call of
\* `[self.submit(func, x) for x in iterables]`: x ranges over the tuple
\* `iterables` of the positional arguments, so each x is a whole iterable.
MapSubmitted(iterables) ==
    [i \in 1..Len(iterables) |-> ListArg(iterables[i])]

\* map(func, it), iterated: the list comprehension submits its futures
\* before the first result is asked for.
MapCall(kind, it) ==
    /\ mapState = "idle"
    /\ LET iterables == <<it>>
           args == MapSubmitted(iterables)
           n == Len(args)
           ids == [i \in 1..n |-> Len(futures) + i]
       IN /\ Len(futures) + n <= MaxTasks
          /\ mapIn' = iterables
          /\ futures' = futures \o [i \in 1..n |-> NewTaskFuture(kind, args[i])]
          /\ ncalls' = ncalls \o [i \in 1..n |-> 0]
          /\ queue' = queue \o ids
          /\ mapFuts' = ids
    /\ mapState' = "running"
    /\ lateSubmits' = IF sdReturned >= 1
                         THEN lateSubmits + Len(mapFuts')
                         ELSE lateSubmits
    /\ UNCHANGED <<resources, workerVars, taskThreads, obsVars, sdpc, sdI,
                   sdRounds, sdReturned, sdCaller, sdSeen, scopeVars,
                   mapOut, reVars>>

\* map: `yield future.result()` for the next future of the list; the
\* result() call has no timeout and blocks until the signal is set. An
\* error re-raised by result() ends the generator.
MapYield ==
    /\ mapState = "running"
    /\ LET f == mapFuts[Len(mapOut) + 1]
           out == ResultOutcome(futures[f])
       IN /\ futures[f].finished
          /\ IF out.kind = "return"
                THEN /\ mapOut' = Append(mapOut, out.val)
                     /\ mapState' = IF Len(mapOut) + 1 = Len(mapFuts)
                                       THEN "done" ELSE "running"
                ELSE /\ mapOut' = mapOut
                     /\ mapState' = "raised"
    /\ UNCHANGED <<resources, queue, futVars, workerVars, taskThreads,
                   obsVars, sdVars, scopeVars, mapIn, mapFuts, reVars>>

\* ---------------------------------------------------------------- ResourceExecutor
\* The resource of the ResourceExecutor (`self._resource`).
REResource == 1

\* ResourceExecutor.__exit__ takes three arguments after self:
\* exception_type, exception_value, traceback.
ExitParams == 3
\* ResourceExecutor.shutdown passes none: `self.__exit__()`.
ShutdownExitArgs == 0

\* Whether a call of __exit__ with nargs positional arguments binds its
\* parameters (none has a default); if not, Python raises TypeError
\* before the body runs.
ExitAccepts(nargs) == nargs = ExitParams

\* ResourceExecutor.__enter__
REEnter ==
    /\ reCalls < MaxCalls
    /\ reCalls' = reCalls + 1
    /\ reEntered' = reEntered + 1
    /\ reLast' = [op |-> "enter", task |-> "none", out |-> "ok", releases |-> 0]
    /\ UNCHANGED <<resources, queue, futVars, workerVars, taskThreads,
                   obsVars, sdVars, scopeVars, mapVars, reReleased, tfs,
                   tfObs, tfCb>>

\* ResourceExecutor.__exit__(exception_type, exception_value, traceback),
\* as the with statement calls it.
REExit ==
    /\ reCalls < MaxCalls
    /\ reCalls' = reCalls + 1
    /\ reReleased' = reReleased + 1
    /\ reLast' = [op |-> "exit", task |-> "none", out |-> "ok", releases |-> 1]
    /\ UNCHANGED <<resources, queue, futVars, workerVars, taskThreads,
                   obsVars, sdVars, scopeVars, mapVars, reEntered, tfs,
                   tfObs, tfCb>>

\* ResourceExecutor.shutdown: `self.__exit__()`.
REShutdown ==
    /\ reCalls < MaxCalls
    /\ reCalls' = reCalls + 1
    /\ IF ExitAccepts(ShutdownExitArgs)
          THEN /\ reReleased' = reReleased + 1
               /\ reLast' = [op |-> "shutdown", task |-> "none", out |-> "ok",
                             releases |-> 1]
          ELSE /\ reReleased' = reReleased
               /\ reLast' = [op |-> "shutdown", task |-> "none",
                             out |-> "TypeError", releases |-> 0]
    /\ UNCHANGED <<resources, queue, futVars, workerVars, taskThreads,
                   obsVars, sdVars, scopeVars, mapVars, reEntered, tfs,
                   tfObs, tfCb>>

\* A submit that captures the error of the task in the future it returns.
RESubmitCaptures(kind, arg) ==
    /\ reCalls < MaxCalls
    /\ reCalls' = reCalls + 1
    /\ tfs' = Append(tfs, IF kind = "ok" THEN Ret(REResource, arg)
                                         ELSE ExcInfo(REResource, arg))
    /\ tfCb' = Append(tfCb, NoCallbacks)
    /\ reLast' = [op |-> "submit", task |-> kind, out |-> "ok",
                  releases |-> 0]
    /\ UNCHANGED <<resources, queue, futVars, workerVars, taskThreads,
                   obsVars, sdVars, scopeVars, mapVars, reEntered,
                   reReleased, tfObs>>

\* ResourceExecutor.submit: `TrivialFuture(fn(self._resource, ...))`. The
\* task is called on the caller's thread; an error it raises leaves
\* submit, and no future is made.
RESubmit(kind, arg) ==
    /\ reCalls < MaxCalls
    /\ reCalls' = reCalls + 1
    /\ IF kind = "ok"
          THEN /\ tfs' = Append(tfs, Ret(REResource, arg))
               /\ tfCb' = Append(tfCb, NoCallbacks)
               /\ reLast' = [op |-> "submit", task |-> kind, out |-> "ok",
                             releases |-> 0]
          ELSE /\ tfs' = tfs
               /\ tfCb' = tfCb
               /\ reLast' = [op |-> "submit", task |-> kind, out |-> "raise",
                             releases |-> 0]
    /\ UNCHANGED <<resources, queue, futVars, workerVars, taskThreads,
                   obsVars, sdVars, scopeVars, mapVars, reEntered,
                   reReleased, tfObs>>

\* ---------------------------------------------------------------- TrivialFuture
\* The values a TrivialFuture is constructed with.
TFValues == {None, Ret(REResource, ItemArg(1))}
\* The timeouts result and exception are called with.
Timeouts == {"None", "0", "1"}
\* The methods of TrivialFuture that answer with a boolean.
TFFlagOps == {"cancel", "cancelled", "running", "done"}
\* The methods of TrivialFuture that take a timeout and answer with a value.
TFValueOps == {"result", "exception"}

TrivialFutureIds == 1..Len(tfs)

\* TrivialFuture(result): `self._result = result`.
TFNew(r) ==
    /\ reCalls < MaxCalls
    /\ reCalls' = reCalls + 1
    /\ tfs' = Append(tfs, r)
    /\ tfCb' = Append(tfCb, NoCallbacks)
    /\ UNCHANGED <<resources, queue, futVars, workerVars, taskThreads,
                   obsVars, sdVars, scopeVars, mapVars, reEntered,
                   reReleased, reLast, tfObs>>

\* TrivialFuture.cancel, cancelled, running and done, of a future whose
\* _result is fut.
TFFlag(fut, op) ==
    CASE op = "cancel" -> FALSE
      [] op = "cancelled" -> FALSE
      [] op = "running" -> FALSE
      [] op = "done" -> TRUE

\* A result(timeout) that gives nothing when it is told not to wait.
TFResultNeedsWait(fut, timeout) == IF timeout = "0" THEN None ELSE fut

\* TrivialFuture.result(timeout): `return self._result`.
TFResult(fut, timeout) == fut

\* TrivialFuture.exception(timeout): `return None`.
TFException(fut, timeout) == None

\* A call of one of the boolean methods of the i-th TrivialFuture.
TFAsk(i, op) ==
    /\ reCalls < MaxCalls
    /\ reCalls' = reCalls + 1
    /\ tfObs' = [fut |-> i, op |-> op, timeout |-> "None",
                 flag |-> TFFlag(tfs[i], op), val |-> None]
    /\ UNCHANGED <<resources, queue, futVars, workerVars, taskThreads,
                   obsVars, sdVars, scopeVars, mapVars, reEntered,
                   reReleased, reLast, tfs, tfCb>>

\* A call of result(timeout) or exception(timeout) of the i-th
\* TrivialFuture.
TFWait(i, op, timeout) ==
    /\ reCalls < MaxCalls
    /\ reCalls' = reCalls + 1
    /\ tfObs' = [fut |-> i, op |-> op, timeout |-> timeout, flag |-> FALSE,
                 val |-> IF op = "result"
                            THEN TFResult(tfs[i], timeout)
                            ELSE TFException(tfs[i], timeout)]
    /\ UNCHANGED <<resources, queue, futVars, workerVars, taskThreads,
                   obsVars, sdVars, scopeVars, mapVars, reEntered,
                   reReleased, reLast, tfs, tfCb>>

\* The calls of fn that one add_done_callback(fn) makes before it
\* returns: `return fn(self)`.
CallbackCalls == 1

\* TrivialFuture.add_done_callback(fn) on the i-th TrivialFuture; fn is
\* called with the future itself, inside the call.
TFAddDoneCallback(i) ==
    /\ reCalls < MaxCalls
    /\ reCalls' = reCalls + 1
    /\ tfCb' = [tfCb EXCEPT ![i] = [adds |-> @.adds + 1,
                                    calls |-> @.calls + CallbackCalls]]
    /\ tfObs' = [fut |-> i, op |-> "add_done_callback", timeout |-> "None",
                 flag |-> FALSE, val |-> None]
    /\ UNCHANGED <<resources, queue, futVars, workerVars, taskThreads,
                   obsVars, sdVars, scopeVars, mapVars, reEntered,
                   reReleased, reLast, tfs>>

\* ---------------------------------------------------------------- specifications
\* The ThreadResourceExecutor with every operation of its callers.
Next ==
    \/ \E w \in Workers : WorkerGet(w)
    \/ \E w \in Workers : WorkerCall(w)
    \/ \E w \in Workers : WorkerSet(w)
    \/ \E k \in TaskKinds : Submit(k, ItemArg(Len(futures) + 1))
    \/ \E f \in FutureIds : ResultWait(f)
    \/ \E f \in FutureIds : ResultTimeout(f)
    \/ ShutdownCall
    \/ ShutdownCheck
    \/ ShutdownPut
    \/ Enter
    \/ \E exc \in {"None", "Error"} : ExitCall(exc)
    \/ \E ok \in BOOLEAN : ExitRelease(ok)
    \/ \E k \in TaskKinds, it \in MapInputs : MapCall(k, it)
    \/ MapYield

Spec == Init /\ [][Next]_vars

\* Callers that submit tasks and wait for results.
NextWait ==
    \/ \E w \in Workers : WorkerGet(w)
    \/ \E w \in Workers : WorkerCall(w)
    \/ \E w \in Workers : WorkerSet(w)
    \/ \E k \in TaskKinds : Submit(k, ItemArg(Len(futures) + 1))
    \/ \E f \in FutureIds : ResultWait(f)
    \/ \E f \in FutureIds : ResultTimeout(f)

SpecWait == Init /\ [][NextWait]_vars

\* The same callers, with every worker thread scheduled again and again
\* and every task call ending.
SpecFair ==
    /\ Init
    /\ [][NextWait]_vars
    /\ \A w \in Workers :
          /\ WF_vars(WorkerGet(w))
          /\ WF_vars(WorkerCall(w))
          /\ WF_vars(WorkerSet(w))

\* Callers that submit tasks and shut the pool down.
NextShutdown ==
    \/ \E w \in Workers : WorkerGet(w)
    \/ \E w \in Workers : WorkerCall(w)
    \/ \E w \in Workers : WorkerSet(w)
    \/ \E k \in TaskKinds : Submit(k, ItemArg(Len(futures) + 1))
    \/ ShutdownCall
    \/ ShutdownCheck
    \/ ShutdownPut

SpecShutdown == Init /\ [][NextShutdown]_vars

\* Callers that use the pool as a context manager and submit tasks.
NextScope ==
    \/ \E w \in Workers : WorkerGet(w)
    \/ \E w \in Workers : WorkerCall(w)
    \/ \E w \in Workers : WorkerSet(w)
    \/ \E k \in TaskKinds : Submit(k, ItemArg(Len(futures) + 1))
    \/ ShutdownCheck
    \/ ShutdownPut
    \/ Enter
    \/ \E exc \in {"None", "Error"} : ExitCall(exc)
    \/ \E ok \in BOOLEAN : ExitRelease(ok)

SpecScope == Init /\ [][NextScope]_vars

\* Callers that submit tasks and map a task over an iterable.
NextMap ==
    \/ \E w \in Workers : WorkerGet(w)
    \/ \E w \in Workers : WorkerCall(w)
    \/ \E w \in Workers : WorkerSet(w)
    \/ \E k \in TaskKinds : Submit(k, ItemArg(Len(futures) + 1))
    \/ \E k \in TaskKinds, it \in MapInputs : MapCall(k, it)
    \/ MapYield

SpecMap == Init /\ [][NextMap]_vars

\* Callers of the ResourceExecutor.
NextRE ==
    \/ REEnter
    \/ REExit
    \/ REShutdown
    \/ \E k \in TaskKinds : RESubmit(k, ItemArg(reCalls + 1))

SpecRE == Init /\ [][NextRE]_vars

\* Callers that make TrivialFutures, directly and through
\* ResourceExecutor.submit, and call their methods.
NextTF ==
    \/ \E r \in TFValues : TFNew(r)
    \/ \E k \in TaskKinds : RESubmit(k, ItemArg(reCalls + 1))
    \/ \E i \in TrivialFutureIds, op \in TFFlagOps : TFAsk(i, op)
    \/ \E i \in TrivialFutureIds, op \in TFValueOps, t \in Timeouts :
          TFWait(i, op, t)
    \/ \E i \in TrivialFutureIds : TFAddDoneCallback(i)

SpecTF == Init /\ [][NextTF]_vars

\* Callers that submit tasks to a ResourceExecutor and to a
\* ThreadResourceExecutor and ask for the results of the pool's futures.
NextSubmit ==
    \/ \E w \in Workers : WorkerGet(w)
    \/ \E w \in Workers : WorkerCall(w)
    \/ \E w \in Workers : WorkerSet(w)
    \/ \E k \in TaskKinds : Submit(k, ItemArg(Len(futures) + 1))
    \/ \E f \in FutureIds : ResultWait(f)
    \/ \E k \in TaskKinds : RESubmit(k, ItemArg(reCalls + 1))

SpecSubmit == Init /\ [][NextSubmit]_vars

\* The next step of worker thread w, wherever it stands in run().
WorkerStep(w) == WorkerGet(w) \/ WorkerCall(w) \/ WorkerSet(w)

\* The next step of the thread that is inside shutdown.
ShutdownStep == ShutdownCheck \/ ShutdownPut

\* Callers that submit tasks and then call shutdown, once: the tasks are
\* on the queue or with a worker when shutdown begins.
NextStop ==
    \/ \E w \in Workers : WorkerGet(w)
    \/ \E w \in Workers : WorkerCall(w)
    \/ \E w \in Workers : WorkerSet(w)
    \/ /\ sdpc = "idle" /\ sdReturned = 0
       /\ \E k \in TaskKinds : Submit(k, ItemArg(Len(futures) + 1))
    \/ sdReturned = 0 /\ ShutdownCall
    \/ ShutdownCheck
    \/ ShutdownPut

\* Callers that submit tasks and then call shutdown, with every worker
\* thread and the thread inside shutdown scheduled again and again and
\* every task call ending.
SpecFairShutdown ==
    /\ Init
    /\ [][NextStop]_vars
    /\ \A w \in Workers : WF_vars(WorkerStep(w))
    /\ WF_vars(ShutdownStep)

\* ---------------------------------------------------------------- claims
\* C1: every task submitted to a pool of N >= 1 workers gets its future's
\* completion signal set, so that result() with no timeout terminates
\* (returning the task's value or re-raising its error), whatever kind of
\* error the task raises.
C1_ResultAlwaysDelivered ==
    \A i \in 1..MaxTasks :
        (Len(futures) >= i) ~> (Len(futures) >= i /\ futures[i].finished)

\* C2: in every state where shutdown() has returned, every future
\* submitted before that shutdown was called has its completion signal
\* set, and no worker is alive.
C2_AfterShutdownAllDone ==
    sdReturned >= 1 =>
        /\ \A f \in 1..sdSeen : futures[f].finished
        /\ ~AnyAlive

\* C3 (as stated): every operation on a given resource, its __enter__, its
\* __exit__ and every task call with it, is performed by one and the same
\* thread.
C3_OneThreadPerResource ==
    \A r \in Workers : Cardinality(taskThreads[r] \cup scopeThreads[r]) <= 1

\* C3 (amended): with pairwise distinct resources, every task call with a
\* given resource is performed by one and the same thread, the worker
\* constructed with that resource; its __enter__ and __exit__ are
\* performed by the caller's thread.
C3_TaskCallsOnOwnWorker ==
    \A r \in Workers :
        /\ taskThreads[r] \subseteq {w \in PoolWorkers : resources[w] = r}
        /\ Cardinality(taskThreads[r]) <= 1
        /\ scopeThreads[r] \subseteq {MainThread}

\* C3 witness: a resource that was acquired, used by a task and released.
C3_Witness ==
    \E r \in Workers :
        /\ taskThreads[r] # {}
        /\ entered[r] > 0
        /\ released[r] > 0

\* C4: a result(timeout) call whose wait expires on a pending future ends
\* with a timeout failure, distinct from a returned value and from a
\* re-raised task error.
C4_TimeoutIsDistinctFailure ==
    obs.expired => obs.kind = "timeout"

\* What result() gives for a task's real outcome: the value of the task
\* called with a worker's resource and its arguments, or the error it
\* raised.
RealOutcome(fut, o) ==
    CASE fut.task = "ok" ->
            /\ o.kind = "return"
            /\ o.val.tag = "ret"
            /\ o.val.arg = fut.args
            /\ o.val.res \in {resources[w] : w \in PoolWorkers}
      [] fut.task = "exc" ->
            /\ o.kind = "raise"
            /\ o.val.tag = "exc"
            /\ o.val.arg = fut.args
      [] OTHER -> FALSE

\* C5: a result(timeout) call whose wait expires changes neither the
\* future (task, arguments, result slot, error slot, signal) nor the
\* queue, the task is never invoked a second time, and a result() call
\* made later, once the worker has set the signal, gives the task's real
\* outcome.
C5_TimeoutLeavesFuture ==
    /\ [][\A f \in FutureIds :
             ResultTimeout(f) =>
                (futures' = futures /\ ncalls' = ncalls /\ queue' = queue)]_vars
    /\ [](\A f \in expiredOn : ncalls[f] <= 1)
    /\ [](obs.fut \in expiredOn /\ ~obs.expired =>
             RealOutcome(futures[obs.fut], obs))

\* C5 witness: a result() call that found the signal set, on a future on
\* which an earlier result(timeout) call had expired.
C5_Witness ==
    /\ obs.fut \in expiredOn
    /\ ~obs.expired
    /\ ncalls[obs.fut] = 1

\* C6: for a task that raised an error of any kind, the failure is in the
\* future's error slot and the worker that ran it is still alive (it
\* sets the signal and goes on to the next queue item).
C6_FailureNeverStopsWorker ==
    \A f \in FutureIds :
        (ncalls[f] >= 1 /\ futures[f].task # "ok") =>
            /\ futures[f].excinfo # None
            /\ \A w \in Workers : wfut[w] = f => IsAlive(w)

\* C7: when __exit__ of the pool has ended, by returning or by raising,
\* the release of every one of its resources has been invoked exactly
\* once.
C7_ExitReleasesEveryResourceOnce ==
    scope \in {"returned", "raised"} =>
        \A w \in PoolWorkers : released[resources[w]] = 1

SentinelCount(q) == Cardinality({i \in 1..Len(q) : q[i] = Sentinel})

\* C8: once a shutdown() has returned, no worker is alive, a later
\* shutdown() never enters the round that puts sentinels, no step puts a
\* sentinel on the queue or changes a future, and the later shutdown()
\* leaves its test by returning.
C8_ShutdownIdempotent ==
    /\ [](sdReturned >= 1 => (~AnyAlive /\ sdpc # "put"))
    /\ [][sdReturned >= 1 =>
             /\ SentinelCount(queue') = SentinelCount(queue)
             /\ \A f \in FutureIds : futures'[f] = futures[f]
             /\ (sdpc = "check" /\ sdpc' # "check") =>
                    (sdpc' = "idle" /\ sdReturned' = sdReturned + 1)]_vars

\* C8 witness: a second shutdown() has returned.
C8_Witness == sdReturned >= 2 /\ Len(futures) >= 1

\* C9: ResourceExecutor.shutdown() ends without error and invokes the
\* release of the resource exactly once, as __exit__ does.
C9_ShutdownIsExit ==
    reLast.op = "shutdown" => (reLast.out = "ok" /\ reLast.releases = 1)

\* C10: map(fn, iterable) over k items enqueues exactly k tasks, the i-th
\* being fn(resource, i-th item), and, run to its end, yields exactly k
\* results.
C10_MapOneTaskPerItem ==
    mapState # "idle" =>
        /\ Len(mapFuts) = Len(mapIn[1])
        /\ \A i \in 1..Len(mapFuts) :
              futures[mapFuts[i]].args = ItemArg(mapIn[1][i])
        /\ mapState = "done" => Len(mapOut) = Len(mapIn[1])

\* The futures still on the work queue, in queue order.
Waiting == SelectSeq(queue, LAMBDA x : x # Sentinel)

\* Whether future f has been taken from the work queue.
Dequeued(f) == \A n \in 1..Len(queue) : queue[n] # f

\* What executing the task of fut against resource r gives, when the call
\* ends by a return or by an error result() re-raises.
Sequential(fut, r) ==
    IF fut.task = "ok"
       THEN [kind |-> "return", val |-> Ret(r, fut.args)]
       ELSE [kind |-> "raise", val |-> ExcInfo(r, fut.args)]

\* C11: tasks leave the work queue in the order of their submit() calls:
\* the futures still waiting are always the ones submitted last, in
\* submission order, so no task is dequeued after one submitted later.
\* In a pool of one worker every task submitted before a dequeued task
\* has been called once and, unless its error ended the worker, is done,
\* and the outcome of every done future is that of its task executed
\* against the one resource.
C11_FifoOrder ==
    /\ Waiting = [n \in 1..Len(Waiting) |-> Len(futures) - Len(Waiting) + n]
    /\ Len(resources) = 1 =>
          \A j \in FutureIds :
              /\ Dequeued(j) =>
                    \A i \in 1..(j - 1) : ncalls[i] = 1 /\ futures[i].finished
              /\ futures[j].finished =>
                    ResultOutcome(futures[j]) = Sequential(futures[j], resources[1])

\* A pool of one worker has completed every task submitted to it, while
\* a shutdown is under way.
C11_Witness ==
    /\ Len(resources) = 1
    /\ Len(futures) = MaxTasks
    /\ \A f \in FutureIds : futures[f].finished
    /\ sdRounds >= 1

\* The workers that hold future f: they took it from the queue and have
\* not yet gone back to the queue for the next one.
Holders(f) == {w \in PoolWorkers : wfut[w] = f}

\* C12: no TaskFuture ever has both its result slot and its error slot
\* populated; a step changes a future only if exactly one worker holds it
\* (the one that took it from the queue); a future whose completion
\* signal is set is never changed again and its task is never called
\* again, so it becomes done at most once; and every result() call whose
\* wait ended with the signal set gives the outcome read from that
\* unchanging state.
C12_FutureWrittenOnce ==
    /\ [](\A f \in FutureIds :
            ~(futures[f].result # None /\ futures[f].excinfo # None))
    /\ [][\A f \in FutureIds :
            futures'[f] # futures[f] =>
                /\ Cardinality(Holders(f)) = 1
                /\ \A w \in Holders(f) : wpc[w] \in {"call", "set"}]_vars
    /\ [][\A f \in FutureIds :
            futures[f].finished =>
                futures'[f] = futures[f] /\ ncalls'[f] = ncalls[f]]_vars
    /\ []((obs.fut # 0 /\ ~obs.expired) =>
            /\ futures[obs.fut].finished
            /\ obs.kind = ResultOutcome(futures[obs.fut]).kind
            /\ obs.val = ResultOutcome(futures[obs.fut]).val)

\* result() has re-raised the error of a done future while another
\* future is done as well.
C12_Witness ==
    /\ obs.fut # 0 /\ ~obs.expired /\ obs.kind = "raise"
    /\ futures[obs.fut].result = None
    /\ \E f \in FutureIds : f # obs.fut /\ futures[f].finished

\* C13: ResourceExecutor.submit has called the task when it returns: a
\* task that returns gives one new TrivialFuture holding its value, and a
\* task that raises makes submit raise to its caller, with no future
\* made. ThreadResourceExecutor.submit adds one pending future (signal
\* not set, both slots empty, task not called) without moving any
\* worker, whatever the task does; result() re-raises only for a task
\* that raised, and only the error the worker recorded in that future.
C13_SubmitAsymmetry ==
    /\ [][reCalls' # reCalls =>
            /\ reLast'.op = "submit"
            /\ IF reLast'.task = "ok"
                  THEN /\ reLast'.out = "ok"
                       /\ Len(tfs') = Len(tfs) + 1
                       /\ SubSeq(tfs', 1, Len(tfs)) = tfs
                       /\ tfs'[Len(tfs')] = Ret(REResource, ItemArg(reCalls'))
                  ELSE /\ reLast'.out = "raise"
                       /\ tfs' = tfs]_vars
    /\ [][Len(futures') # Len(futures) =>
            /\ Len(futures') = Len(futures) + 1
            /\ SubSeq(futures', 1, Len(futures)) = futures
            /\ futures'[Len(futures')] \in
                  {NewTaskFuture(k, ItemArg(Len(futures'))) : k \in TaskKinds}
            /\ ncalls'[Len(futures')] = 0
            /\ wpc' = wpc /\ wfut' = wfut /\ obs' = obs]_vars
    /\ [](obs.kind = "raise" =>
            /\ futures[obs.fut].task = "exc"
            /\ obs.val = futures[obs.fut].excinfo
            /\ obs.val # None)

\* A raising task has made ResourceExecutor.submit raise, and result()
\* has re-raised the error of a raising task submitted to the pool.
C13_Witness ==
    /\ reLast.op = "submit" /\ reLast.task = "exc" /\ reLast.out = "raise"
    /\ obs.kind = "raise"
    /\ futures[obs.fut].task = "exc"

\* C14: whatever value a TrivialFuture was constructed with and whatever
\* was called on it before, done() gives True, cancelled(), running() and
\* cancel() give False, exception(timeout) gives None and result(timeout)
\* gives the value of the construction, for every timeout; no call
\* changes that value; and every add_done_callback(fn) has called fn with
\* the future exactly once when it returns.
C14_TrivialFutureIsDone ==
    /\ [](tfObs.op \in TFFlagOps => tfObs.flag = (tfObs.op = "done"))
    /\ [](tfObs.op = "exception" => tfObs.val = None)
    /\ [](tfObs.op = "result" => tfObs.val = tfs[tfObs.fut])
    /\ [](\A i \in TrivialFutureIds : tfCb[i].calls = tfCb[i].adds)
    /\ [][/\ \A i \in TrivialFutureIds : tfs'[i] = tfs[i]
          /\ Len(tfs') > Len(tfs) =>
                tfs'[Len(tfs')] \in TFValues \cup {Ret(REResource, ItemArg(reCalls'))}
         ]_vars

\* result(timeout=0) was called on a TrivialFuture that holds a value and
\* on which add_done_callback had been called before.
C14_Witness ==
    /\ tfObs.op = "result" /\ tfObs.timeout = "0"
    /\ tfs[tfObs.fut] # None
    /\ tfCb[tfObs.fut].adds >= 1

\* C15: whenever the completion signal of a TaskFuture is set, its task
\* has been called and the worker has written the outcome of that call:
\* the value returned is in the result slot, or the error caught is in
\* the error slot. So a result() call whose wait ended with the signal
\* set returns the value the task returned or re-raises the error the
\* task raised, never the empty initial result of a task that raised.
C15_WriteThenSignal ==
    /\ \A f \in FutureIds :
          futures[f].finished =>
              /\ ncalls[f] = 1
              /\ \E w \in PoolWorkers :
                    futures[f] = [TaskOutcome(NewTaskFuture(futures[f].task,
                                                            futures[f].args),
                                              resources[w])
                                    EXCEPT !.finished = TRUE]
              /\ futures[f].task = "ok" => futures[f].result # None
              /\ futures[f].task # "ok" => futures[f].excinfo # None
    /\ (obs.fut # 0 /\ ~obs.expired) =>
          /\ RealOutcome(futures[obs.fut], obs)
          /\ ~(futures[obs.fut].task # "ok" /\ obs.kind = "return")

\* result() has re-raised the error of a done future while a worker
\* stands between writing the outcome of another task and setting that
\* future's signal.
C15_Witness ==
    /\ obs.fut # 0 /\ ~obs.expired
    /\ futures[obs.fut].task = "exc"
    /\ \E w \in PoolWorkers :
          /\ wpc[w] = "set"
          /\ ~futures[wfut[w]].finished
          /\ futures[wfut[w]].result # None

\* C16 as stated: a round of shutdown's loop puts as many sentinels as
\* there are workers alive when the round begins, and no sentinel is put
\* while no worker is alive.
C16_SentinelPerAliveWorker ==
    /\ [][(sdpc = "check" /\ sdpc' = "put") =>
             SentinelsPerRound = Cardinality(AliveWorkers)]_vars
    /\ [][SentinelCount(queue') > SentinelCount(queue) => AnyAlive]_vars

\* C16: a round of shutdown's loop begins only when its test found a
\* worker alive, and it puts one sentinel for every worker of the pool,
\* alive or not: sentinels are put one at a time, by shutdown only, and
\* the round ends with the put that brings its count to the size of the
\* pool.
C16_SentinelPerWorker ==
    /\ [][(sdpc = "check" /\ sdpc' = "put") => AnyAlive /\ sdI' = 0]_vars
    /\ [](sdpc = "put" => sdI < Len(resources))
    /\ [][SentinelCount(queue') # SentinelCount(queue) =>
             \/ /\ sdpc = "put"
                /\ SentinelCount(queue') = SentinelCount(queue) + 1
                /\ IF sdI + 1 = Len(resources)
                      THEN sdpc' = "check"
                      ELSE sdpc' = "put" /\ sdI' = sdI + 1
             \/ /\ SentinelCount(queue') = SentinelCount(queue) - 1
                /\ \E w \in PoolWorkers : wpc[w] = "get" /\ wpc'[w] = "dead"]_vars
    /\ [][(sdpc = "put" /\ sdpc' = "check") => sdI + 1 = Len(resources)]_vars

\* The last sentinel of a round is about to be put although a worker of
\* the pool has already stopped on a sentinel and no worker has stopped
\* otherwise.
C16_Witness ==
    /\ sdpc = "put"
    /\ sdI + 1 = Len(resources)
    /\ Cardinality(AliveWorkers) < Len(resources)
    /\ \A w \in PoolWorkers : wpc[w] = "dead" => wfut[w] = 0

\* C17: with every thread scheduled again and again and every task call
\* ending, a shutdown() that has been called returns, and when it has
\* returned no worker is alive. Whichever worker takes a sentinel, it
\* takes one sentinel in that step and is not alive after it; a worker
\* that is not alive never becomes alive again and never takes anything
\* from the queue.
C17_ShutdownTerminates ==
    /\ (sdpc # "idle") ~> (sdpc = "idle" /\ sdReturned >= 1 /\ ~AnyAlive)
    /\ [](sdReturned >= 1 => ~AnyAlive)
    /\ [][SentinelCount(queue') < SentinelCount(queue) =>
             /\ SentinelCount(queue') = SentinelCount(queue) - 1
             /\ \E w \in PoolWorkers :
                   /\ wpc[w] = "get" /\ wpc'[w] = "dead"
                   /\ \A v \in PoolWorkers \ {w} : wpc'[v] = wpc[v]]_vars
    /\ [][\A w \in PoolWorkers :
             ~IsAlive(w) => (wpc'[w] = wpc[w] /\ wfut'[w] = wfut[w])]_vars

\* shutdown() has returned from a pool of NumWorkers workers that had
\* completed a task, every worker having stopped on a sentinel.
C17_Witness ==
    /\ sdReturned >= 1
    /\ Len(resources) = NumWorkers
    /\ \A w \in PoolWorkers : wpc[w] = "dead" /\ wfut[w] = 0
    /\ \E f \in FutureIds : futures[f].finished

\* C18: in __exit__ of a ThreadResourceExecutor, shutdown has returned
\* before the first release: a step that invokes the release of a
\* resource starts in a state where no worker is alive, none holds a
\* future it has taken and not finished with, and nothing is inside
\* shutdown; and from the release loop on no worker is alive.
C18_ShutdownBeforeRelease ==
    /\ [][released' # released =>
             /\ ~AnyAlive
             /\ \A w \in PoolWorkers : wpc[w] = "dead"
             /\ sdpc = "idle" /\ sdReturned >= 1]_vars
    /\ []((scope \in {"release", "returned", "raised"}
            \/ \E r \in Workers : released[r] > 0) =>
              /\ ~AnyAlive
              /\ sdpc = "idle" /\ sdReturned >= 1)

\* A resource of a pool of NumWorkers workers has been released after
\* the pool had completed a task.
C18_Witness ==
    /\ \E r \in Workers : released[r] > 0
    /\ Len(resources) = NumWorkers
    /\ \E f \in FutureIds : futures[f].finished
    /\ scope = "release"

\* The places of future f on the work queue.
QueuePlaces(f) == {n \in 1..Len(queue) : queue[n] = f}

\* C19: every future is on the work queue at most once and, once taken,
\* never on it again; at most one worker holds it, and its task has been
\* called at most once, only after it was taken. The call is made by the
\* worker that holds the future, with that worker's own resource as first
\* argument, and its outcome goes to that future. A worker holds one
\* future at a time, so two calls that are in flight with the same
\* resource are the same worker's one call.
C19_OneCallPerFuture ==
    /\ [](\A f \in FutureIds :
            /\ ncalls[f] <= 1
            /\ Cardinality(Holders(f)) <= 1
            /\ Cardinality(QueuePlaces(f)) <= 1
            /\ (Holders(f) # {} \/ ncalls[f] = 1) => Dequeued(f))
    /\ [][\A f \in FutureIds : Dequeued(f) => Dequeued(f)']_vars
    /\ [][\A f \in FutureIds :
            ncalls'[f] # ncalls[f] =>
                \E w \in Holders(f) :
                    /\ wpc[w] = "call" /\ wpc'[w] # "call"
                    /\ ncalls'[f] = ncalls[f] + 1
                    /\ futures'[f] = TaskOutcome(futures[f], resources[w])
                    /\ taskThreads' = [taskThreads EXCEPT ![resources[w]] =
                                          taskThreads[resources[w]] \cup {w}]]_vars
    /\ [](\A w, v \in PoolWorkers :
            (wpc[w] = "call" /\ wpc[v] = "call"
             /\ WorkerResource(w) = WorkerResource(v)) => w = v)

\* Two workers each hold a future of their own, whose task they are about
\* to call.
C19_Witness ==
    \E w, v \in PoolWorkers :
        /\ w # v
        /\ wpc[w] = "call" /\ wpc[v] = "call"
        /\ wfut[w] # wfut[v]

\* The futures submitted after a shutdown() had returned.
LateFutures == {f \in FutureIds : f > Len(futures) - lateSubmits}

\* C20: after a shutdown() has returned, no worker is alive and none
\* becomes alive again; submit() can still be called and works as
\* before: it appends one pending future and puts it on the work queue.
\* Every future submitted after a returned shutdown stays on the queue:
\* its task is never called, its slots stay empty and its completion
\* signal is never set.
C20_SubmitAfterShutdown ==
    /\ [](sdReturned >= 1 => ~AnyAlive)
    /\ [][\A w \in PoolWorkers : ~IsAlive(w) => ~IsAlive(w)']_vars
    /\ []((sdReturned >= 1 /\ Len(futures) < MaxTasks) =>
            \A k \in TaskKinds : ENABLED Submit(k, ItemArg(Len(futures) + 1)))
    /\ [][(sdReturned >= 1 /\ Len(futures') # Len(futures)) =>
            /\ futures' = Append(futures, futures'[Len(futures')])
            /\ futures'[Len(futures')] \in
                  {NewTaskFuture(k, ItemArg(Len(futures'))) : k \in TaskKinds}
            /\ queue' = Append(queue, Len(futures'))
            /\ lateSubmits' = lateSubmits + 1]_vars
    /\ [](\A f \in LateFutures :
            /\ ~futures[f].finished
            /\ futures[f].result = None /\ futures[f].excinfo = None
            /\ ncalls[f] = 0
            /\ Cardinality(QueuePlaces(f)) = 1
            /\ \A w \in PoolWorkers : wfut[w] # f)

\* After a shutdown() that stopped NumWorkers workers, one of which had
\* completed a task, a task was submitted, and a later shutdown() has
\* returned as well.
C20_Witness ==
    /\ lateSubmits >= 1
    /\ Len(resources) = NumWorkers
    /\ \E f \in FutureIds : futures[f].finished
    /\ sdReturned >= 2

====
